---- MODULE Spec2Model ----
(***************************************************************************)
(* The state-access layer of the Radiothermostat accessory                 *)
(* (src/src/index.ts): the throttled, gated getState and the accessors     *)
(* that go through it.  Every `await` of the source is a yield point: the  *)
(* code between two awaits is one atomic action (single-threaded event     *)
(* loop).  Snapshots are JavaScript objects, so they live in a heap and    *)
(* are held by reference.  The informational probes (model, serial         *)
(* number, firmware, humidity) and the display units do not go through     *)
(* getState; they have a specification of their own, InfoSpec, as have the *)
(* target-temperature write and the target-mode write.                     *)
(***************************************************************************)
EXTENDS Integers, Sequences, FiniteSets

\* ---------------------------------------------------------------- bounds
NumCalls == 3        \* getState callers of one run (the constructor's included)
MaxAdvance == 2      \* steps of the wall clock in one run
StartTime == 20000   \* wall clock (ms since the epoch) at construction

\* ------------------------------------------------------- program constants
OFF == 0
HEAT == 1
COOL == 2
AUTO == 3
Epoch == 0           \* new Date(0)
NoRef == 0           \* getStateCache before the first fetch (undefined)
DefaultPoll == 5000
MinPoll == 3000
MaxPoll == 15000
SpinDelay == 500     \* setTimeout(resolve, 500)
HeatBelow == 60
CoolAbove == 85

Modes == {OFF, HEAT, COOL, AUTO}
Temps == {59, 60, 85, 86}
FanStates == {0, 1}
\* What GET /tstat can answer (the thermostat's state at the time, which its
\* panel and its schedule change at will): AUTO at every temperature around
\* the two thresholds, and each other mode once
DeviceStates ==
    {[tmode |-> AUTO, temp |-> t, fstate |-> 0] : t \in Temps}
    \cup {[tmode |-> OFF, temp |-> 60, fstate |-> 1],
          [tmode |-> HEAT, temp |-> 59, fstate |-> 0],
          [tmode |-> COOL, temp |-> 86, fstate |-> 1]}
\* The two setpoints of a snapshot, degrees Fahrenheit (index.ts 246, 249)
t_heat == 68
t_cool == 78
\* min_poll_interval as configured; -1 stands for "not configured"
NotConfigured == -1
ConfigValues == {NotConfigured, 1000, 10000, 20000}
Calls == 1..NumCalls
Accessors == {"onTargetHeatingCoolingStateGet", "updateFanState"}

VARIABLES
    now,                 \* the wall clock, ms
    advances,            \* clock steps taken so far
    min_poll_interval,   \* this.config.min_poll_interval after the constructor
    lastGetStateTime,    \* this.lastGetStateTime
    getStateCache,       \* this.getStateCache: a heap reference or NoRef
    getStateInProgress,  \* this.getStateInProgress (the gate)
    heap,                \* the snapshot objects, by reference
    calls,               \* the calls in progress: position and locals
    reported,            \* history: what the device returned for each snapshot
    postOk,              \* history: tmode values POSTed successfully, per snapshot
    lastGetIssued,       \* history: clock value when GET /tstat was last issued
    returned,            \* history: the last call that completed, and how
    configured,          \* history: min_poll_interval as the configuration had it
    detached,            \* the POSTs nobody awaits (index.ts 264, 267)
    model,               \* this.model
    sysInfo,             \* this.sysInfo
    humidityRegistered,  \* the humidity characteristic has its onGet (286-287)
    probes,              \* the informational calls in progress
    requests,            \* history: requests issued so far, per path
    startupProbe,        \* history: how the constructor's humidity probe ended
    infoReturned,        \* history: the last informational call that completed
    unitsWritten         \* history: the display units written so far

infoVars == <<model, sysInfo, humidityRegistered, probes, requests,
              startupProbe, infoReturned, unitsWritten>>

vars == <<now, advances, min_poll_interval, lastGetStateTime, getStateCache,
          getStateInProgress, heap, calls, reported, postOk, lastGetIssued,
          returned, configured, detached, infoVars>>

\* ----------------------------------------------------- JavaScript values
\* What this.model, a field of this.sysInfo or a humidity can hold: undefined,
\* a string or a number
JsUndefined == [t |-> "undefined", s |-> "", n |-> 0]
Str(x) == [t |-> "string", s |-> x, n |-> 0]
Num(k) == [t |-> "number", s |-> "", n |-> k]

\* index.ts 35: sysInfo?: {serialNumber, firmware}, undefined at first
NoSysInfo ==
    [defined |-> FALSE, serialNumber |-> JsUndefined, firmware |-> JsUndefined]

\* What the device answers to /tstat/model, to /sys and to /tstat/humidity
\* (-1 is what a thermostat without the sensor reports; the field can be
\* missing)
ModelAnswers == {Str("CT50 V1.94")}
SysAnswers == {[uuid |-> Str("5cdad4276ec4"), fw_version |-> Str("1.04.84")]}
HumidityAnswers == {Num(-1), Num(0), Num(40), JsUndefined}

\* The informational calls of one run: the constructor's getInfo (112), its
\* registerHumidity (114), and NumCalls calls from the host
InfoCalls == 1..(NumCalls + 2)

IdleProbe == [kind |-> "none", pc |-> "idle"]
DoneProbe == [kind |-> "none", pc |-> "done"]

\* The startup probe of /tstat/humidity has not finished
ProbePending == [done |-> FALSE, ok |-> FALSE, humidity |-> JsUndefined]

NoInfoReturn ==
    [kind |-> "none", outcome |-> "none", result |-> JsUndefined, probe |-> "none"]

\* An informational call hands v to the host; probe tells how the request it
\* made ended ("none": it made none)
InfoValue(k, v, probe) ==
    [kind |-> k, outcome |-> "value", result |-> v, probe |-> probe]

\* ------------------------------------------------------------ constructor
\* A constructor that only fills in the default
DefaultOnly(v) == IF v = NotConfigured THEN DefaultPoll ELSE v

\* index.ts 48-54: the default and the clamp of min_poll_interval
ClampPoll(v) ==
    IF v = NotConfigured THEN DefaultPoll
    ELSE IF v < MinPoll THEN MinPoll
    ELSE IF v > MaxPoll THEN MaxPoll
    ELSE v

\* No POST /tstat: what a call that sent none is remembered with
NoPost == [field |-> "none", value |-> 0, status |-> "none"]

\* A call slot that is not in use.  cacheAtStart and stampAtStart are history:
\* the cache and the fetch time when the call set the gate.  arg and post
\* belong to the writes: the argument, and (history) the POST sent for it and
\* how it ended.
IdleCall ==
    [kind |-> "none", pc |-> "idle", currentTime |-> 0, sleptAt |-> 0,
     state |-> NoRef, body |-> OFF, cacheAtStart |-> NoRef, stampAtStart |-> Epoch,
     arg |-> 0, post |-> NoPost]

DoneCall == [IdleCall EXCEPT !.pc = "done"]

\* arg, post and pushes are history: the argument of a write, the POST it
\* sent and the updateValue calls it made
NoReturn ==
    [kind |-> "none", outcome |-> "none", state |-> NoRef, result |-> OFF,
     during |-> "none", arg |-> 0, post |-> NoPost, pushes |-> 0]

\* The call r hands a value to its caller
Value(r, v) ==
    [kind |-> r.kind, outcome |-> "value", state |-> r.state, result |-> v,
     during |-> "none", arg |-> r.arg, post |-> r.post, pushes |-> 0]

\* The call r rejects: SERVICE_COMMUNICATION_FAILURE out of request (175), or
\* a TypeError on reading a field of undefined
Error(r, what, where) ==
    [kind |-> r.kind, outcome |-> what, state |-> r.state, result |-> OFF,
     during |-> where, arg |-> r.arg, post |-> r.post, pushes |-> 0]

\* The comparison taken one millisecond early
ExpiredAtTheInterval(currentTime) ==
    currentTime - lastGetStateTime >= min_poll_interval

\* index.ts 186: the data are older than the poll interval
Expired(currentTime) ==
    currentTime - lastGetStateTime > min_poll_interval

\* The state after the constructor has run: the fields as declared (31-35),
\* the interval clamped, and the constructor's own this.getState() (113): the
\* gate is clear and the cache is older than any interval, so it is suspended
\* at its await with the gate set and GET /tstat in flight.  So are its
\* getInfo() (112) with GET /sys and its registerHumidity() (114) with
\* GET /tstat/humidity.
Init ==
    /\ now = StartTime
    /\ advances = 0
    /\ configured \in ConfigValues
    /\ min_poll_interval = ClampPoll(configured)
    /\ detached = {}
    /\ model = JsUndefined
    /\ sysInfo = NoSysInfo
    /\ humidityRegistered = FALSE
    /\ probes = [c \in InfoCalls |->
                   IF c = 1 THEN [kind |-> "getInfo", pc |-> "probing"]
                   ELSE IF c = 2 THEN [kind |-> "registerHumidity", pc |-> "probing"]
                   ELSE IdleProbe]
    /\ requests = [sys |-> 1, model |-> 0, humidity |-> 1]
    /\ startupProbe = ProbePending
    /\ infoReturned = NoInfoReturn
    /\ unitsWritten = {}
    /\ lastGetStateTime = Epoch
    /\ getStateCache = NoRef
    /\ heap = <<>>
    /\ reported = <<>>
    /\ postOk = <<>>
    /\ lastGetIssued = StartTime
    /\ IF Expired(StartTime)
       THEN /\ getStateInProgress = TRUE
            /\ calls = [c \in Calls |->
                         IF c = 1
                         THEN [IdleCall EXCEPT !.kind = "constructor",
                                               !.pc = "fetching",
                                               !.currentTime = StartTime]
                         ELSE IdleCall]
            /\ returned = NoReturn
       ELSE /\ getStateInProgress = FALSE
            /\ calls = [c \in Calls |-> IF c = 1 THEN DoneCall ELSE IdleCall]
            /\ returned = Value([IdleCall EXCEPT !.kind = "constructor"], OFF)

\* ------------------------------------------------------------ environment
\* The clock moves by a timer period or by exactly the poll interval.
ClockSteps == {SpinDelay, min_poll_interval}

\* Time passes.  A call asleep in setTimeout(resolve, 500) (182) is due once
\* 500 ms have passed since it went to sleep.
Advance(d) ==
    /\ advances < MaxAdvance
    /\ now' = now + d
    /\ advances' = advances + 1
    /\ calls' = [c \in Calls |->
                  IF calls[c].pc = "sleeping" /\ now' >= calls[c].sleptAt + SpinDelay
                  THEN [calls[c] EXCEPT !.pc = "due", !.sleptAt = 0]
                  ELSE calls[c]]
    /\ UNCHANGED <<min_poll_interval, configured, detached,
                   infoVars, lastGetStateTime, getStateCache,
                   getStateInProgress, heap, reported, postOk,
                   lastGetIssued, returned>>

\* --------------------------------------------------------------- getState
\* A refresh that ignores the gate
GateNeverBlocks == FALSE

\* index.ts 181: while (this.getStateInProgress)
GateBlocks == getStateInProgress

\* A refresh that does not set the gate
GateLeftOpen == FALSE

\* index.ts 187: this.getStateInProgress = true
GateOnStart == TRUE

\* index.ts 311-313: updateFanState after `await this.getState()` pushes
\* state.fstate to the host.  No code writes fstate, so the value is the same
\* whenever the continuation runs: it is taken in the step that resolves.
updateFanState(r, ref, h) ==
    IF ref = NoRef
    THEN Error(r, "TypeError", "updateFanState")
    ELSE Value([r EXCEPT !.state = ref], h[ref].fstate)

\* index.ts 199 and the caller's await: getState resolves with `ref` for the
\* call record r of call c, h being the heap by then.  The constructor (113)
\* drops the promise; onTargetHeatingCoolingStateGet resumes after its await.
Resolved(c, r, ref, h) ==
    IF r.kind = "constructor"
    THEN /\ calls' = [calls EXCEPT ![c] = DoneCall]
         /\ returned' = Value([r EXCEPT !.state = ref], OFF)
    ELSE IF r.kind = "updateFanState"
    THEN /\ calls' = [calls EXCEPT ![c] = DoneCall]
         /\ returned' = updateFanState(r, ref, h)
    ELSE /\ calls' = [calls EXCEPT ![c] =
                        [r EXCEPT !.pc = "gotState", !.state = ref, !.sleptAt = 0,
                                  !.cacheAtStart = NoRef, !.stampAtStart = Epoch]]
         /\ UNCHANGED returned

\* index.ts 181-189, from the loop test to the first await, for the call
\* record r of call c: sleep 500 ms while the gate is set; otherwise take the
\* time, and either set the gate and issue GET /tstat or return the cache.
getState(c, r) ==
    IF GateBlocks
    THEN /\ calls' = [calls EXCEPT ![c] = [r EXCEPT !.pc = "sleeping",
                                                     !.sleptAt = now]]
         /\ UNCHANGED <<getStateInProgress, lastGetIssued, returned>>
    ELSE IF Expired(now)
    THEN /\ getStateInProgress' = GateOnStart
         /\ calls' = [calls EXCEPT ![c] = [r EXCEPT !.pc = "fetching",
                                                     !.currentTime = now,
                                                     !.sleptAt = 0,
                                                     !.cacheAtStart = getStateCache,
                                                     !.stampAtStart = lastGetStateTime]]
         /\ lastGetIssued' = now
         /\ UNCHANGED returned
    ELSE /\ Resolved(c, [r EXCEPT !.currentTime = now], getStateCache, heap)
         /\ UNCHANGED <<getStateInProgress, lastGetIssued>>

\* An accessor is called by the host (or the 15 s fan timer fires, 116):
\* it runs into getState up to its first await.
Invoke(c, k) ==
    /\ calls[c].pc = "idle"
    /\ \A d \in Calls : d < c => calls[d].pc # "idle"
    /\ getState(c, [IdleCall EXCEPT !.kind = k])
    /\ UNCHANGED <<now, advances, min_poll_interval, configured, detached,
                   infoVars, lastGetStateTime,
                   getStateCache, heap, reported, postOk>>

\* index.ts 182: the 500 ms timer of a waiting call fires; the loop test runs again.
TimerFires(c) ==
    /\ calls[c].pc = "due"
    /\ getState(c, calls[c])
    /\ UNCHANGED <<now, advances, min_poll_interval, configured, detached,
                   infoVars, lastGetStateTime,
                   getStateCache, heap, reported, postOk>>

\* index.ts 195: this.lastGetStateTime = currentTime
StampOnResolve(c) == calls[c].currentTime

\* index.ts 189, 195-199: GET /tstat succeeded with the answer d: the response
\* object becomes the cache, the time taken before the request becomes the
\* fetch time, the gate opens.
GetStateResolve(c, d) ==
    /\ calls[c].pc = "fetching"
    /\ LET ref == Len(heap) + 1 IN
         /\ heap' = Append(heap, d)
         /\ reported' = Append(reported, d)
         /\ postOk' = Append(postOk, {})
         /\ getStateCache' = ref
         /\ Resolved(c, calls[c], ref, Append(heap, d))
    /\ lastGetStateTime' = StampOnResolve(c)
    /\ getStateInProgress' = FALSE
    /\ UNCHANGED <<now, advances, min_poll_interval, configured, detached,
                   infoVars, lastGetIssued>>

\* A catch block that records the attempt as a fetch
StampOnRejectToo(c) == calls[c].currentTime

\* index.ts 190-193: the catch block leaves the fetch time alone ...
StampOnReject(c) == lastGetStateTime

\* A catch block that forgets the gate
GateKeptOnReject == TRUE

\* ... and opens the gate (191)
GateOnReject == FALSE

\* index.ts 173-176, 190-193: GET /tstat failed: the error is rethrown to the
\* caller, and no accessor catches it.
GetStateReject(c) ==
    /\ calls[c].pc = "fetching"
    /\ getStateInProgress' = GateOnReject
    /\ lastGetStateTime' = StampOnReject(c)
    /\ calls' = [calls EXCEPT ![c] = DoneCall]
    /\ returned' = Error(calls[c], "SERVICE_COMMUNICATION_FAILURE", "getState")
    /\ UNCHANGED <<now, advances, min_poll_interval, configured, detached,
                   infoVars, getStateCache, heap,
                   reported, postOk, lastGetIssued>>

\* ------------------------------------------------------------- accessors
\* The two tests without the final else: 60..85 stays AUTO
ResolveAutoNoElse(temp) ==
    IF temp < HeatBelow THEN HEAT ELSE IF temp > CoolAbove THEN COOL ELSE AUTO

\* index.ts 217-219: two statements, the second an if/else of its own
ResolveAuto(temp) ==
    LET first == IF temp < HeatBelow THEN HEAT ELSE AUTO
    IN  IF temp > CoolAbove THEN COOL ELSE OFF

\* index.ts 210-222: after `await this.getState()`.  `state` is the cached
\* object itself, so the assignment to state.tmode writes into the cache.
onTargetHeatingCoolingStateGet(c) ==
    /\ calls[c].pc = "gotState"
    /\ calls[c].kind = "onTargetHeatingCoolingStateGet"
    /\ LET ref == calls[c].state IN
         IF ref = NoRef
         THEN /\ calls' = [calls EXCEPT ![c] = DoneCall]
              /\ returned' = Error(calls[c], "TypeError", "onTargetHeatingCoolingStateGet")
              /\ UNCHANGED heap
         ELSE IF heap[ref].tmode = AUTO
         THEN LET m == ResolveAuto(heap[ref].temp) IN
              /\ heap' = [heap EXCEPT ![ref].tmode = m]
              /\ calls' = [calls EXCEPT ![c].pc = "posting", ![c].body = m,
                                        ![c].currentTime = 0]
              /\ UNCHANGED returned
         ELSE /\ calls' = [calls EXCEPT ![c] = DoneCall]
              /\ returned' = Value(calls[c], heap[ref].tmode)
              /\ UNCHANGED heap
    /\ UNCHANGED <<now, advances, min_poll_interval, configured, detached,
                   infoVars, lastGetStateTime,
                   getStateCache, getStateInProgress, reported, postOk,
                   lastGetIssued>>

\* index.ts 220, 222: POST /tstat {"tmode": m} succeeded; return state.tmode
PostResolve(c) ==
    /\ calls[c].pc = "posting"
    /\ postOk' = [postOk EXCEPT ![calls[c].state] = @ \cup {calls[c].body}]
    /\ calls' = [calls EXCEPT ![c] = DoneCall]
    /\ returned' = Value(calls[c], heap[calls[c].state].tmode)
    /\ UNCHANGED <<now, advances, min_poll_interval, configured, detached,
                   infoVars, lastGetStateTime,
                   getStateCache, getStateInProgress, heap, reported,
                   lastGetIssued>>

\* index.ts 173-176, 220: the POST failed; the accessor rejects
PostReject(c) ==
    /\ calls[c].pc = "posting"
    /\ calls' = [calls EXCEPT ![c] = DoneCall]
    /\ returned' = Error(calls[c], "SERVICE_COMMUNICATION_FAILURE", "request")
    /\ UNCHANGED <<now, advances, min_poll_interval, configured, detached,
                   infoVars, lastGetStateTime,
                   getStateCache, getStateInProgress, heap, reported, postOk,
                   lastGetIssued>>

\* ---------------------------------------------------------- specification
Next ==
    \/ \E d \in ClockSteps : Advance(d)
    \/ \E c \in Calls, k \in Accessors : Invoke(c, k)
    \/ \E c \in Calls : TimerFires(c)
    \/ \E c \in Calls, d \in DeviceStates : GetStateResolve(c, d)
    \/ \E c \in Calls : GetStateReject(c)
    \/ \E c \in Calls : onTargetHeatingCoolingStateGet(c)
    \/ \E c \in Calls : PostResolve(c)
    \/ \E c \in Calls : PostReject(c)

Spec == Init /\ [][Next]_vars

\* ----------------------------------------------------------------- writes
\* Temperatures are fractions: a Celsius argument is counted in tenths of a
\* degree, its Fahrenheit image in fiftieths (9/5 of a tenth is 9 fiftieths),
\* a Celsius result in ninths.
CelsiusUnit == 10
FahrenheitUnit == 50
NinthsUnit == 9

\* The target temperatures the host writes, in tenths of a degree Celsius:
\* 20.6 (69.08 F, the nearest degree is below) and 22.5 (72.5 F, half way)
CelsiusArgs == {206, 225}
\* The target modes the host can write (validValues, 83-89)
ModeArgs == {OFF, HEAT, COOL}

\* index.ts 167-169: c * 9 / 5 + 32, in fiftieths for c in tenths
celsiusToFahrenheit(c) ==
    (c * 9 * FahrenheitUnit) \div (5 * CelsiusUnit) + 32 * FahrenheitUnit

\* index.ts 163-165: (f - 32) * 5 / 9, in ninths for f in whole degrees
fahrenheitToCelsius(f) == ((f - 32) * 5 * NinthsUnit) \div 9

\* Rounding that drops the fraction
MathFloor(n, d) == n \div d

\* Math.round of the fraction n/d: the nearest integer, a half going up
MathRound(n, d) == (2 * n + d) \div (2 * d)

\* index.ts 259
targetTempOf(c) == MathRound(celsiusToFahrenheit(c), FahrenheitUnit)

\* A switch with a default case: whatever is not COOL is handled as HEAT
SetpointFieldDefaultHeat(tmode) ==
    IF tmode = COOL THEN "t_cool" ELSE "t_heat"

\* index.ts 262-269: the switch on state.tmode; OFF and AUTO match no case
SetpointField(tmode) ==
    IF tmode = HEAT THEN "t_heat" ELSE IF tmode = COOL THEN "t_cool" ELSE "none"

\* index.ts 257-261: the host writes a target temperature; the conversion,
\* then getState up to its first await
TargetTemperatureSetCalled(c, celsius) ==
    /\ calls[c].pc = "idle"
    /\ \A d \in Calls : d < c => calls[d].pc # "idle"
    /\ getState(c, [IdleCall EXCEPT !.kind = "onTargetTemperatureSet",
                                    !.arg = celsius])
    /\ UNCHANGED <<now, advances, min_poll_interval, configured, detached,
                   infoVars, lastGetStateTime, getStateCache, heap, reported,
                   postOk>>

\* index.ts 262-270, after `await this.getState()`: the POST is issued and
\* not awaited, and the accessor resolves at once.  (Two pending POSTs with
\* the same body count as one.)
onTargetTemperatureSet(c) ==
    /\ calls[c].pc = "gotState"
    /\ calls[c].kind = "onTargetTemperatureSet"
    /\ calls' = [calls EXCEPT ![c] = DoneCall]
    /\ LET ref == calls[c].state IN
         IF ref = NoRef
         THEN /\ returned' = Error(calls[c], "TypeError", "onTargetTemperatureSet")
              /\ UNCHANGED detached
         ELSE LET f == SetpointField(heap[ref].tmode)
                  p == [field |-> f, value |-> targetTempOf(calls[c].arg),
                        status |-> "pending"]
              IN  IF f = "none"
                  THEN /\ returned' = Value(calls[c], OFF)
                       /\ UNCHANGED detached
                  ELSE /\ returned' = [Value(calls[c], OFF) EXCEPT !.post = p]
                       /\ detached' = detached \cup {p}
    /\ UNCHANGED <<now, advances, min_poll_interval, configured, infoVars,
                   lastGetStateTime, getStateCache, getStateInProgress, heap,
                   reported, postOk, lastGetIssued>>

\* A POST nobody awaits succeeds
DetachedResolve(p) ==
    /\ p \in detached
    /\ p.status = "pending"
    /\ detached' = detached \ {p}
    /\ UNCHANGED <<now, advances, min_poll_interval, configured, infoVars,
                   lastGetStateTime, getStateCache, getStateInProgress, heap,
                   calls, reported, postOk, lastGetIssued, returned>>

\* index.ts 173-176: a POST nobody awaits fails; request throws into a
\* promise without a handler, and the rejection stays where it is
DetachedReject(p) ==
    /\ p \in detached
    /\ p.status = "pending"
    /\ detached' = (detached \ {p}) \cup {[p EXCEPT !.status = "failed"]}
    /\ UNCHANGED <<now, advances, min_poll_interval, configured, infoVars,
                   lastGetStateTime, getStateCache, getStateInProgress, heap,
                   calls, reported, postOk, lastGetIssued, returned>>

\* index.ts 225-227: the host writes a target mode; POST /tstat
\* {"tmode": targetState} is issued and awaited
onTargetHeatingCoolingStateSet(c, targetState) ==
    /\ calls[c].pc = "idle"
    /\ \A d \in Calls : d < c => calls[d].pc # "idle"
    /\ calls' = [calls EXCEPT ![c] =
                    [IdleCall EXCEPT !.kind = "onTargetHeatingCoolingStateSet",
                                     !.pc = "setting", !.arg = targetState,
                                     !.post = [field |-> "tmode",
                                               value |-> targetState,
                                               status |-> "pending"]]]
    /\ UNCHANGED <<now, advances, min_poll_interval, configured, detached,
                   infoVars, lastGetStateTime, getStateCache,
                   getStateInProgress, heap, reported, postOk, lastGetIssued,
                   returned>>

\* index.ts 227-229, 241: the POST succeeded; onTargetTemperatureGet is
\* called and runs into getState up to its first await
SetResolve(c) ==
    /\ calls[c].pc = "setting"
    /\ getState(c, [calls[c] EXCEPT !.post.status = "ok"])
    /\ UNCHANGED <<now, advances, min_poll_interval, configured, detached,
                   infoVars, lastGetStateTime, getStateCache, heap, reported,
                   postOk>>

\* index.ts 173-176, 227: the POST failed; the accessor rejects
SetReject(c) ==
    /\ calls[c].pc = "setting"
    /\ calls' = [calls EXCEPT ![c] = DoneCall]
    /\ returned' = Error([calls[c] EXCEPT !.post.status = "failed"],
                         "SERVICE_COMMUNICATION_FAILURE", "request")
    /\ UNCHANGED <<now, advances, min_poll_interval, configured, detached,
                   infoVars, lastGetStateTime, getStateCache,
                   getStateInProgress, heap, reported, postOk, lastGetIssued>>

\* A write that pushes the temperature twice
PushedTwice(r, v) == [Value(r, v) EXCEPT !.pushes = @ + 2]

\* index.ts 229-230: the call r pushes v to the host with updateValue and
\* resolves
Pushed(r, v) == [Value(r, v) EXCEPT !.pushes = @ + 1]

\* index.ts 242-253 and 229-231, after `await this.getState()` inside the
\* target-mode write: the setpoint of the snapshot's mode (the temperature
\* when it has none) in Celsius, which the write pushes to the host
onTargetTemperatureGet(c) ==
    /\ calls[c].pc = "gotState"
    /\ calls[c].kind = "onTargetHeatingCoolingStateSet"
    /\ calls' = [calls EXCEPT ![c] = DoneCall]
    /\ LET ref == calls[c].state IN
         IF ref = NoRef
         THEN returned' = Error(calls[c], "TypeError", "onTargetTemperatureGet")
         ELSE LET targetTemp == IF heap[ref].tmode = HEAT THEN t_heat
                                ELSE IF heap[ref].tmode = COOL THEN t_cool
                                ELSE heap[ref].temp
              IN  returned' = Pushed(calls[c], fahrenheitToCelsius(targetTemp))
    /\ UNCHANGED <<now, advances, min_poll_interval, configured, detached,
                   infoVars, lastGetStateTime, getStateCache,
                   getStateInProgress, heap, reported, postOk, lastGetIssued>>

\* The writes are followed with the default interval, and with one AUTO
\* answer among the answers of GET /tstat: they read tmode and the setpoints,
\* and the thresholds of the target-mode read play no part
WriteInit == Init /\ configured = NotConfigured
WriteDeviceStates == {d \in DeviceStates : d.tmode = AUTO => d.temp = HeatBelow}

\* Target-temperature writes from the host
TemperatureWriteNext ==
    \/ \E d \in ClockSteps : Advance(d)
    \/ \E c \in Calls, a \in CelsiusArgs : TargetTemperatureSetCalled(c, a)
    \/ \E c \in Calls : TimerFires(c)
    \/ \E c \in Calls, d \in WriteDeviceStates : GetStateResolve(c, d)
    \/ \E c \in Calls : GetStateReject(c)
    \/ \E c \in Calls : onTargetTemperatureSet(c)
    \/ \E p \in detached : DetachedResolve(p)
    \/ \E p \in detached : DetachedReject(p)

TemperatureWriteSpec == WriteInit /\ [][TemperatureWriteNext]_vars

\* Target-mode writes from the host
ModeWriteNext ==
    \/ \E d \in ClockSteps : Advance(d)
    \/ \E c \in Calls, m \in ModeArgs : onTargetHeatingCoolingStateSet(c, m)
    \/ \E c \in Calls : TimerFires(c)
    \/ \E c \in Calls, d \in WriteDeviceStates : GetStateResolve(c, d)
    \/ \E c \in Calls : GetStateReject(c)
    \/ \E c \in Calls : SetResolve(c)
    \/ \E c \in Calls : SetReject(c)
    \/ \E c \in Calls : onTargetTemperatureGet(c)

ModeWriteSpec == WriteInit /\ [][ModeWriteNext]_vars

\* ------------------------------------------------- informational accessors
FAHRENHEIT == 1
\* What the host may write as display units
UnitArgs == {0, 1}

stateVars == <<now, advances, min_poll_interval, lastGetStateTime, getStateCache,
               getStateInProgress, heap, calls, reported, postOk, lastGetIssued,
               returned, configured, detached>>

\* One more request to `path`
Requested(path) == [requests EXCEPT ![path] = @ + 1]

\* The host may call with slot c: the slots are taken in order
Free(c) ==
    /\ probes[c].pc = "idle"
    /\ \A d \in InfoCalls : d < c => probes[d].pc # "idle"

\* A catch block that stores nothing
NoSentinel == JsUndefined

\* index.ts 134, 146: 'unknown'
Sentinel == Str("unknown")

\* index.ts 129-137: onGetModel up to its await, or to its return when
\* this.model is not undefined
onGetModel(c) ==
    /\ Free(c)
    /\ IF model = JsUndefined
       THEN /\ probes' = [probes EXCEPT ![c] = [kind |-> "onGetModel", pc |-> "probing"]]
            /\ requests' = Requested("model")
            /\ UNCHANGED infoReturned
       ELSE /\ probes' = [probes EXCEPT ![c] = DoneProbe]
            /\ infoReturned' = InfoValue("onGetModel", model, "none")
            /\ UNCHANGED requests
    /\ UNCHANGED <<stateVars, model, sysInfo, humidityRegistered, startupProbe,
                   unitsWritten>>

\* index.ts 132, 137: GET /tstat/model answered d
ModelResolve(c, d) ==
    /\ probes[c] = [kind |-> "onGetModel", pc |-> "probing"]
    /\ model' = d
    /\ probes' = [probes EXCEPT ![c] = DoneProbe]
    /\ infoReturned' = InfoValue("onGetModel", model', "ok")
    /\ UNCHANGED <<stateVars, sysInfo, humidityRegistered, requests, startupProbe,
                   unitsWritten>>

\* index.ts 133-137: GET /tstat/model failed; the catch block stores 'unknown'
ModelReject(c) ==
    /\ probes[c] = [kind |-> "onGetModel", pc |-> "probing"]
    /\ model' = Sentinel
    /\ probes' = [probes EXCEPT ![c] = DoneProbe]
    /\ infoReturned' = InfoValue("onGetModel", model', "failed")
    /\ UNCHANGED <<stateVars, sysInfo, humidityRegistered, requests, startupProbe,
                   unitsWritten>>

\* index.ts 154, 159: the field of sysInfo that accessor k returns
FieldOf(k, info) ==
    IF k = "onGetSerialNumber" THEN info.serialNumber ELSE info.firmware

\* index.ts 149 and 153-159: getInfo returns `info` to the caller of kind k
\* after a request that ended as `probe`; the constructor drops the promise
InfoReturned(k, info, probe) ==
    IF k = "getInfo" THEN infoReturned ELSE InfoValue(k, FieldOf(k, info), probe)

\* index.ts 152-160, 140-142: onGetSerialNumber or onGetFirmware runs into
\* getInfo, up to its await or, when this.sysInfo is not undefined, through
getInfo(c, k) ==
    /\ Free(c)
    /\ IF ~sysInfo.defined
       THEN /\ probes' = [probes EXCEPT ![c] = [kind |-> k, pc |-> "probing"]]
            /\ requests' = Requested("sys")
            /\ UNCHANGED infoReturned
       ELSE /\ probes' = [probes EXCEPT ![c] = DoneProbe]
            /\ infoReturned' = InfoReturned(k, sysInfo, "none")
            /\ UNCHANGED requests
    /\ UNCHANGED <<stateVars, model, sysInfo, humidityRegistered, startupProbe,
                   unitsWritten>>

\* The calls of getInfo whose GET /sys is outstanding
SysProbing(c) ==
    /\ probes[c].pc = "probing"
    /\ probes[c].kind \in {"getInfo", "onGetSerialNumber", "onGetFirmware"}

\* index.ts 143-144, 149: GET /sys answered d
SysResolve(c, d) ==
    /\ SysProbing(c)
    /\ sysInfo' = [defined |-> TRUE, serialNumber |-> d.uuid,
                   firmware |-> d.fw_version]
    /\ probes' = [probes EXCEPT ![c] = DoneProbe]
    /\ infoReturned' = InfoReturned(probes[c].kind, sysInfo', "ok")
    /\ UNCHANGED <<stateVars, model, humidityRegistered, requests, startupProbe,
                   unitsWritten>>

\* index.ts 145-149: GET /sys failed; the catch block stores 'unknown' twice
SysReject(c) ==
    /\ SysProbing(c)
    /\ sysInfo' = [defined |-> TRUE, serialNumber |-> Sentinel,
                   firmware |-> Sentinel]
    /\ probes' = [probes EXCEPT ![c] = DoneProbe]
    /\ infoReturned' = InfoReturned(probes[c].kind, sysInfo', "failed")
    /\ UNCHANGED <<stateVars, model, humidityRegistered, requests, startupProbe,
                   unitsWritten>>

\* A test that takes 0 for "no sensor"
HumiditySupportedAboveZero(h) == h.t = "number" /\ h.n > 0

\* index.ts 285: humidity >= 0, which is false for undefined
HumiditySupported(h) == h.t = "number" /\ h.n >= 0

\* index.ts 292: the host reads the humidity, which it can once the
\* characteristic has its onGet (286-287)
onCurrentRelativeHumidityGet(c) ==
    /\ Free(c)
    /\ humidityRegistered
    /\ probes' = [probes EXCEPT ![c] = [kind |-> "onCurrentRelativeHumidityGet",
                                        pc |-> "probing"]]
    /\ requests' = Requested("humidity")
    /\ UNCHANGED <<stateVars, model, sysInfo, humidityRegistered, startupProbe,
                   infoReturned, unitsWritten>>

HumidityProbing(c) ==
    /\ probes[c].pc = "probing"
    /\ probes[c].kind \in {"registerHumidity", "onCurrentRelativeHumidityGet"}

\* index.ts 292-294, 284-288: GET /tstat/humidity answered h.  The value is
\* assigned to this.model on its way to `humidity`; registerHumidity then
\* tests it and registers the accessor.
HumidityResolve(c, h) ==
    /\ HumidityProbing(c)
    /\ model' = h
    /\ probes' = [probes EXCEPT ![c] = DoneProbe]
    /\ IF probes[c].kind = "registerHumidity"
       THEN /\ humidityRegistered' = HumiditySupported(h)
            /\ startupProbe' = [done |-> TRUE, ok |-> TRUE, humidity |-> h]
            /\ UNCHANGED infoReturned
       ELSE /\ infoReturned' = InfoValue("onCurrentRelativeHumidityGet", h, "ok")
            /\ UNCHANGED <<humidityRegistered, startupProbe>>
    /\ UNCHANGED <<stateVars, sysInfo, requests, unitsWritten>>

\* index.ts 173-176, 292, 284: GET /tstat/humidity failed.  Nothing catches
\* it: the host's read rejects; registerHumidity rejects before its test.
HumidityReject(c) ==
    /\ HumidityProbing(c)
    /\ probes' = [probes EXCEPT ![c] = DoneProbe]
    /\ IF probes[c].kind = "registerHumidity"
       THEN /\ startupProbe' = [done |-> TRUE, ok |-> FALSE, humidity |-> JsUndefined]
            /\ UNCHANGED infoReturned
       ELSE /\ infoReturned' = [kind |-> "onCurrentRelativeHumidityGet",
                                outcome |-> "SERVICE_COMMUNICATION_FAILURE",
                                result |-> JsUndefined, probe |-> "failed"]
            /\ UNCHANGED startupProbe
    /\ UNCHANGED <<stateVars, model, sysInfo, humidityRegistered, requests,
                   unitsWritten>>

\* A read that answers with the units the host wrote, if it wrote other ones
DisplayUnitsAsWritten ==
    IF unitsWritten \ {FAHRENHEIT} # {}
    THEN CHOOSE v \in unitsWritten : v # FAHRENHEIT
    ELSE FAHRENHEIT

\* index.ts 275: const currentValue = ...TemperatureDisplayUnits.FAHRENHEIT
DisplayUnits == FAHRENHEIT

\* index.ts 273-277
onTemperatureDisplayUnitsGet ==
    /\ infoReturned' = InfoValue("onTemperatureDisplayUnitsGet", Num(DisplayUnits),
                                 "none")
    /\ UNCHANGED <<stateVars, model, sysInfo, humidityRegistered, probes, requests,
                   startupProbe, unitsWritten>>

\* index.ts 279-281: the value is logged
onTemperatureDisplayUnitsSet(value) ==
    /\ unitsWritten' = unitsWritten \cup {value}
    /\ infoReturned' = InfoValue("onTemperatureDisplayUnitsSet", JsUndefined, "none")
    /\ UNCHANGED <<stateVars, model, sysInfo, humidityRegistered, probes, requests,
                   startupProbe>>

InfoInit == Init /\ configured = NotConfigured

InfoNext ==
    \/ \E c \in InfoCalls : onGetModel(c)
    \/ \E c \in InfoCalls, d \in ModelAnswers : ModelResolve(c, d)
    \/ \E c \in InfoCalls : ModelReject(c)
    \/ \E c \in InfoCalls, k \in {"onGetSerialNumber", "onGetFirmware"} : getInfo(c, k)
    \/ \E c \in InfoCalls, d \in SysAnswers : SysResolve(c, d)
    \/ \E c \in InfoCalls : SysReject(c)
    \/ \E c \in InfoCalls : onCurrentRelativeHumidityGet(c)
    \/ \E c \in InfoCalls, h \in HumidityAnswers : HumidityResolve(c, h)
    \/ \E c \in InfoCalls : HumidityReject(c)
    \/ onTemperatureDisplayUnitsGet
    \/ \E v \in UnitArgs : onTemperatureDisplayUnitsSet(v)

InfoSpec == InfoInit /\ [][InfoNext]_vars

\* --------------------------------------------------------------- progress
\* The clock is followed for MaxAdvance steps.  Time passes after that too:
\* the 500 ms of a sleep (182) end, though the clock value is no longer
\* counted.
SleepsEnd ==
    /\ advances = MaxAdvance
    /\ \E c \in Calls : calls[c].pc = "sleeping"
    /\ calls' = [c \in Calls |->
                  IF calls[c].pc = "sleeping"
                  THEN [calls[c] EXCEPT !.pc = "due", !.sleptAt = 0]
                  ELSE calls[c]]
    /\ UNCHANGED <<now, advances, min_poll_interval, configured, detached,
                   infoVars, lastGetStateTime, getStateCache,
                   getStateInProgress, heap, reported, postOk, lastGetIssued,
                   returned>>

\* getState under callers that only take what it returns (the constructor
\* and the fan timer), with the default interval
LiveNext ==
    \/ \E d \in ClockSteps : Advance(d)
    \/ SleepsEnd
    \/ \E c \in Calls : Invoke(c, "updateFanState")
    \/ \E c \in Calls : TimerFires(c)
    \/ \E c \in Calls, d \in WriteDeviceStates : GetStateResolve(c, d)
    \/ \E c \in Calls : GetStateReject(c)

\* Time passes, a timer that is due fires (182), and a GET /tstat that was
\* issued is answered or fails (171-176).  The host need not call.
Progress ==
    /\ WF_vars(\E d \in ClockSteps : Advance(d))
    /\ WF_vars(SleepsEnd)
    /\ \A c \in Calls :
          /\ WF_vars(TimerFires(c))
          /\ WF_vars((\E d \in WriteDeviceStates : GetStateResolve(c, d))
                        \/ GetStateReject(c))

LiveSpec == WriteInit /\ [][LiveNext]_vars /\ Progress

\* ------------------------------------------------------------------ claims
\* The calls whose GET /tstat is outstanding
Fetching == {c \in Calls : calls[c].pc = "fetching"}

TargetRead == "onTargetHeatingCoolingStateGet"
Failure == "SERVICE_COMMUNICATION_FAILURE"

\* C1: in every reachable state at most one GET /tstat of getState is
\* outstanding, and the gate is set for as long as it is.
C1_AtMostOneRefresh ==
    /\ Cardinality(Fetching) <= 1
    /\ Fetching # {} => getStateInProgress

\* C1: the constructor's fetch is in flight while the fan timer and a
\* target-mode read both wait at the gate.
C1_Witness ==
    \E c, d, e \in Calls :
        /\ calls[c].kind = "constructor" /\ calls[c].pc = "fetching"
        /\ calls[d].kind = "updateFanState" /\ calls[d].pc \in {"sleeping", "due"}
        /\ calls[e].kind = TargetRead /\ calls[e].pc \in {"sleeping", "due"}

\* C2 (as claimed): any two GET /tstat are issued more than min_poll_interval
\* apart, that is, no span of that length sees two of them issued.
C2_OneGetPerWindow ==
    [][\A c \in Calls :
          (c \notin Fetching /\ c \in Fetching')
              => now - lastGetIssued > min_poll_interval]_vars

\* Call c leaves the wait loop of getState in this step
Decides(c) ==
    /\ calls[c].pc \in {"idle", "due"}
    /\ calls'[c].pc \notin {"idle", "due", "sleeping"}

\* C3: a call that passes the gate within min_poll_interval of
\* lastGetStateTime is handed the cache as it is and no request is issued;
\* a call that passes it later sets the gate and issues one GET /tstat.
C3_ElapsedTimeDecides ==
    [][\A c \in Calls :
          Decides(c) =>
              IF now - lastGetStateTime <= min_poll_interval
              THEN /\ Fetching' = Fetching
                   /\ getStateInProgress' = getStateInProgress
                   /\ \/ calls'[c].pc = "gotState" /\ calls'[c].state = getStateCache
                      \/ calls'[c].pc = "done" /\ returned'.state = getStateCache
                                               /\ returned'.outcome = "value"
                   /\ <<getStateCache, lastGetStateTime, heap>>'
                        = <<getStateCache, lastGetStateTime, heap>>
              ELSE /\ Fetching' = Fetching \cup {c}
                   /\ c \notin Fetching
                   /\ getStateInProgress']_vars

\* C3: a target-mode read was handed the cache exactly min_poll_interval
\* after the last fetch.
C3_Witness ==
    \E c \in Calls :
        /\ calls[c].pc = "gotState"
        /\ calls[c].state = getStateCache
        /\ calls[c].currentTime - lastGetStateTime = min_poll_interval

\* C4: while a refresh is in flight the cache and the fetch time stay what
\* they were when it set the gate; when it fails they still are, the heap is
\* untouched, the gate is clear and the call that made it is rejected; when it
\* succeeds the cache is a new object holding the device's answer and the
\* fetch time is the time taken before the request.
C4_FailedRefreshKeepsCache ==
    [][\A c \in Calls :
          /\ (c \in Fetching) =>
                /\ getStateCache = calls[c].cacheAtStart
                /\ lastGetStateTime = calls[c].stampAtStart
          /\ (c \in Fetching /\ c \notin Fetching') =>
                \/ /\ returned'.outcome = Failure
                   /\ returned'.during = "getState"
                   /\ returned'.kind = calls[c].kind
                   /\ getStateCache' = calls[c].cacheAtStart
                   /\ lastGetStateTime' = calls[c].stampAtStart
                   /\ heap' = heap
                   /\ ~getStateInProgress'
                \/ /\ returned'.outcome # Failure \/ returned' = returned
                   /\ calls'[c].pc = "gotState" \/ returned'.outcome = "value"
                   /\ getStateCache' \notin DOMAIN heap
                   /\ getStateCache' \in DOMAIN heap'
                   /\ heap'[getStateCache'] = reported'[getStateCache']
                   /\ \A i \in DOMAIN heap : heap'[i] = heap[i]
                   /\ lastGetStateTime' = calls[c].currentTime
                   /\ ~getStateInProgress']_vars

\* C4: a refresh has failed with a snapshot in the cache: the snapshot and its
\* fetch time are still there, out of date, and the gate is clear.
C4_Witness ==
    /\ returned.outcome = Failure
    /\ returned.during = "getState"
    /\ getStateCache # NoRef
    /\ lastGetStateTime = StartTime
    /\ now - lastGetStateTime > min_poll_interval
    /\ ~getStateInProgress

\* The table of the comment at index.ts 214-215
ThreeWay(temp) ==
    IF temp < HeatBelow THEN HEAT
    ELSE IF temp > CoolAbove THEN COOL
    ELSE OFF

\* C5 (as claimed): a target-mode read of AUTO writes back the mode the
\* three-way table gives for the snapshot's temperature.
C5_ThreeWayTable ==
    \A c \in Calls :
        calls[c].pc = "posting" =>
            calls[c].body = ThreeWay(heap[calls[c].state].temp)

\* C6 (as claimed): when a target-mode read returns a mode for a snapshot the
\* device reported as AUTO, a POST of that mode has succeeded since that
\* snapshot was fetched.
C6_WriteBackBeforeReturn ==
    (/\ returned.kind = TargetRead
     /\ returned.outcome = "value"
     /\ returned.state \in DOMAIN reported
     /\ reported[returned.state].tmode = AUTO)
        => returned.result \in postOk[returned.state]

\* C7: a target-mode read that returns a value returns OFF, HEAT or COOL.
C7_NeverAuto ==
    (returned.kind = TargetRead /\ returned.outcome = "value")
        => returned.result \in {OFF, HEAT, COOL}

\* C7: a target-mode read has returned for a snapshot the device reported as
\* AUTO at a temperature between the two thresholds.
C7_Witness ==
    /\ returned.kind = TargetRead
    /\ returned.outcome = "value"
    /\ returned.state \in DOMAIN reported
    /\ reported[returned.state].tmode = AUTO
    /\ reported[returned.state].temp \in HeatBelow..CoolAbove

\* C8 (as claimed): every snapshot holds, field by field, what the device
\* returned for it.
C8_SnapshotImmutable ==
    \A i \in DOMAIN heap : heap[i] = reported[i]

\* C9: whatever getState hands to a caller is a snapshot some GET /tstat
\* returned, and no accessor trips over an absent one; while no fetch has
\* succeeded, every call is waiting, fetching or has failed.
C9_NeverAbsent ==
    /\ \A c \in Calls :
          calls[c].pc \in {"gotState", "posting"} => calls[c].state \in DOMAIN heap
    /\ returned.outcome = "value" => returned.state \in DOMAIN heap
    /\ returned.outcome # "TypeError"
    /\ heap = <<>> =>
          /\ returned.outcome \in {"none", Failure}
          /\ \A c \in Calls :
                calls[c].pc \in {"idle", "sleeping", "due", "fetching", "done"}

\* C9: the first fetch has failed, nothing is cached, and the next caller, a
\* target-mode read, is fetching.
C9_Witness ==
    /\ heap = <<>>
    /\ getStateCache = NoRef
    /\ returned.outcome = Failure
    /\ \E c \in Calls : calls[c].kind = TargetRead /\ calls[c].pc = "fetching"

\* C10: no step lowers lastGetStateTime.
C10_FetchTimeMonotone ==
    [][lastGetStateTime' >= lastGetStateTime]_vars

\* C10: a second refresh has succeeded and stored a later time than the first.
C10_Witness ==
    /\ Len(heap) >= 2
    /\ lastGetStateTime > StartTime

TempWrite == "onTargetTemperatureSet"

\* Call c, a target-temperature write, resumes after getState and finishes
\* in this step
Writes(c) ==
    /\ calls[c].kind = TempWrite
    /\ calls[c].pc = "gotState"
    /\ calls'[c].pc = "done"

\* C11 (as claimed): no request made for an accessor call has failed without
\* that call failing with the communication failure: no POST has failed
\* behind the back of the call that sent it, and a call remembered with a
\* failed POST is remembered as failed.
C11_FailuresSurface ==
    /\ \A p \in detached : p.status # "failed"
    /\ returned.post.status = "failed" => returned.outcome = Failure

\* C12 (as claimed): a target-temperature write makes no request at all while
\* the target mode is OFF: no GET /tstat made for one is answered with OFF.
C12_NothingSentWhileOff ==
    [][\A c \in Calls :
          (/\ calls[c].kind = TempWrite
           /\ c \in Fetching /\ c \notin Fetching'
           /\ getStateCache' # getStateCache)
              => heap'[getStateCache'].tmode # OFF]_vars

\* C12 (amended): a target-temperature write that getState hands a snapshot
\* with target mode OFF sends no POST, makes no further request and resolves;
\* the one request it may have made is the GET /tstat of a refresh, and when
\* that fails the write fails with the communication failure, nothing sent.
C12_NoPostWhileOff ==
    [][\A c \in Calls :
          /\ (Writes(c) /\ heap[calls[c].state].tmode = OFF) =>
                /\ returned'.kind = TempWrite
                /\ returned'.outcome = "value"
                /\ returned'.post = NoPost
                /\ detached' = detached
                /\ Fetching' = Fetching
          /\ (calls[c].kind = TempWrite /\ c \in Fetching /\ calls'[c].pc = "done") =>
                /\ returned'.outcome = Failure
                /\ returned'.during = "getState"
                /\ returned'.post = NoPost
                /\ detached' = detached]_vars

\* C12: a target-temperature write has resolved on a snapshot with target
\* mode OFF that a write had to fetch.
C12_Witness ==
    /\ returned.kind = TempWrite
    /\ returned.outcome = "value"
    /\ Len(heap) >= 2
    /\ returned.state = Len(heap)
    /\ heap[returned.state].tmode = OFF

\* C13: a target-temperature write of c that getState hands a snapshot in
\* HEAT sends one POST, of t_heat; one in COOL sends one POST, of t_cool; the
\* value is a whole number of degrees within half a degree of c * 9/5 + 32
\* (the upper one when both are); nothing else is sent.
C13_OneSetpointPost ==
    [][\A c \in Calls :
          (Writes(c) /\ heap[calls[c].state].tmode \in {HEAT, COOL}) =>
              LET p == returned'.post
                  exact == 9 * calls[c].arg + 1600     \* fiftieths of a degree
              IN  /\ returned'.kind = TempWrite
                  /\ returned'.outcome = "value"
                  /\ p.field = (IF heap[calls[c].state].tmode = HEAT
                                 THEN "t_heat" ELSE "t_cool")
                  /\ 50 * p.value - exact \in -24..25
                  /\ p.status = "pending"
                  /\ detached' = detached \cup {p}
                  /\ Fetching' = Fetching]_vars

\* C13: a write of 22.5 degrees Celsius, half way between 72 and 73 degrees
\* Fahrenheit, has sent t_heat 73.
C13_Witness ==
    /\ returned.kind = TempWrite
    /\ returned.arg = 225
    /\ returned.post = [field |-> "t_heat", value |-> 73, status |-> "pending"]

InfoReads == {"onGetModel", "onGetSerialNumber", "onGetFirmware"}

\* C14 (as claimed): once this.model or this.sysInfo holds a value, no step
\* changes it, so every later read returns what the earlier ones returned.
C14_InfoRetained ==
    [][/\ model # JsUndefined => model' = model
       /\ sysInfo.defined => sysInfo' = sysInfo]_vars

\* C15 (as claimed): at most one request is ever issued to /sys and at most
\* one to /tstat/model.
C15_FetchedOnce ==
    /\ requests.sys <= 1
    /\ requests.model <= 1

\* C16: a model, serial-number or firmware read always hands a value to the
\* host, and the value is the string 'unknown' when the request made for it
\* failed.
C16_InfoReadsNeverFail ==
    infoReturned.kind \in InfoReads =>
        /\ infoReturned.outcome = "value"
        /\ infoReturned.probe = "failed" => infoReturned.result = Str("unknown")

\* C16: a model read whose GET /tstat/model failed has returned.
C16_Witness ==
    /\ infoReturned.kind = "onGetModel"
    /\ infoReturned.probe = "failed"
    /\ requests.model >= 1

\* C17: the humidity accessor is registered exactly when the startup probe
\* has ended with a number >= 0; once the probe has ended the registration
\* stays as it is; and no second startup probe is ever started.
C17_HumidityRegistration ==
    /\ [](humidityRegistered <=>
             /\ startupProbe.done
             /\ startupProbe.ok
             /\ startupProbe.humidity.t = "number"
             /\ startupProbe.humidity.n >= 0)
    /\ [][/\ startupProbe.done =>
                /\ humidityRegistered' = humidityRegistered
                /\ startupProbe' = startupProbe
           /\ \A c \in InfoCalls :
                probes'[c].kind = "registerHumidity"
                    => probes[c].kind = "registerHumidity"]_vars

\* C17: the startup probe returned 0 and the host has since read the
\* humidity through the registered accessor.
C17_Witness ==
    /\ humidityRegistered
    /\ startupProbe.humidity = Num(0)
    /\ infoReturned.kind = "onCurrentRelativeHumidityGet"

\* C20: a display-units read returns Fahrenheit whatever was written before,
\* and a display-units write changes no field, starts no call and makes no
\* request.
C20_AlwaysFahrenheit ==
    /\ [](infoReturned.kind = "onTemperatureDisplayUnitsGet"
             => infoReturned.result = Num(FAHRENHEIT))
    /\ [][(/\ infoReturned'.kind = "onTemperatureDisplayUnitsSet"
            /\ (infoReturned' # infoReturned \/ unitsWritten' # unitsWritten)) =>
             UNCHANGED <<stateVars, model, sysInfo, humidityRegistered, probes,
                         requests, startupProbe>>]_vars

\* C20: a display-units read has returned after a write of Celsius.
C20_Witness ==
    /\ infoReturned.kind = "onTemperatureDisplayUnitsGet"
    /\ 0 \in unitsWritten

\* C18: min_poll_interval is what the table gives for the configured value
\* (5000 when there is none, 3000 below 3000, 15000 above 15000, the value
\* itself otherwise), lies in 3000..15000, and no step changes it.
C18_PollIntervalClamped ==
    /\ [](/\ min_poll_interval \in 3000..15000
          /\ min_poll_interval =
                IF configured = NotConfigured THEN 5000
                ELSE IF configured < 3000 THEN 3000
                ELSE IF configured > 15000 THEN 15000
                ELSE configured)
    /\ [][min_poll_interval' = min_poll_interval /\ configured' = configured]_vars

\* C18: configured with 1000, getState has handed a caller the cache 3000 ms
\* after the fetch.
C18_Witness ==
    /\ configured = 1000
    /\ \E c \in Calls :
          /\ calls[c].pc = "gotState"
          /\ calls[c].state = getStateCache
          /\ calls[c].currentTime - lastGetStateTime = 3000

ModeWrite == "onTargetHeatingCoolingStateSet"

\* C19 (as claimed): a target-mode write whose POST has succeeded pushes one
\* target-temperature update.
C19_PushAfterEveryPost ==
    (returned.kind = ModeWrite /\ returned.post.status = "ok")
        => returned.pushes = 1

\* C19 (amended): a target-mode write sends the mode it was given in one
\* POST of tmode; it re-queries (waits at the gate, fetches or is handed the
\* cache) only once that POST has succeeded; a write that resolves has pushed
\* exactly one update; one whose POST failed has pushed nothing and fails
\* with the communication failure; and so does one whose POST succeeded but
\* whose re-query then failed in getState.
C19_PostThenPush ==
    /\ \A c \in Calls :
          calls[c].kind = ModeWrite =>
              /\ calls[c].post.field = "tmode"
              /\ calls[c].post.value = calls[c].arg
              /\ calls[c].post.status = (IF calls[c].pc = "setting" THEN "pending"
                                         ELSE "ok")
    /\ returned.kind = ModeWrite =>
          /\ returned.post.field = "tmode"
          /\ returned.post.value = returned.arg
          /\ returned.outcome \in {"value", Failure}
          /\ returned.outcome = "value" =>
                returned.post.status = "ok" /\ returned.pushes = 1
          /\ returned.post.status = "failed" =>
                /\ returned.outcome = Failure
                /\ returned.during = "request"
                /\ returned.pushes = 0
          /\ (returned.outcome = Failure /\ returned.post.status = "ok") =>
                returned.during = "getState" /\ returned.pushes = 0

\* C19: a write of COOL has resolved after a refresh of its own: its POST
\* succeeded and it pushed the setpoint of a snapshot in COOL.
C19_Witness ==
    /\ returned.kind = ModeWrite
    /\ returned.arg = COOL
    /\ returned.outcome = "value"
    /\ returned.pushes = 1
    /\ returned.state = Len(heap)
    /\ Len(heap) >= 2
    /\ heap[returned.state].tmode = COOL
    /\ returned.result = 230      \* (78 - 32) * 5 ninths of a degree

\* The positions of a call inside getState
InGetState == {"sleeping", "due", "fetching"}

\* C21: whenever the gate is set it is cleared later, and every call that is
\* inside getState (asleep at the gate, due to test it again, or waiting for
\* its GET /tstat) leaves it later, with a snapshot or with the failure.
C21_GateEventuallyClear ==
    /\ getStateInProgress ~> ~getStateInProgress
    /\ \A c \in Calls :
          (calls[c].pc \in InGetState) ~> (calls[c].pc \notin InGetState)

\* C21: a refresh has failed and another is in flight while a caller that
\* has already slept once is asleep at the gate again.
C21_Witness ==
    /\ getStateInProgress
    /\ returned.outcome = Failure
    /\ \E c, d \in Calls :
          /\ calls[c].pc = "fetching"
          /\ calls[d].pc = "sleeping"
          /\ calls[d].sleptAt > StartTime

\* The setpoint that goes with target mode m in snapshot d (index.ts 243-251)
SetpointOf(m, d) ==
    IF m = HEAT THEN t_heat ELSE IF m = COOL THEN t_cool ELSE d.temp

\* C22 (as claimed): a target-mode write of m whose POST has just succeeded
\* is not handed, for the temperature it is about to push, a snapshot cached
\* before the write in which the setpoint to report is not the one that goes
\* with m.
C22_ReadYourWrites ==
    [][\A c \in Calls :
          (/\ calls[c].kind = ModeWrite
           /\ calls[c].pc = "setting"
           /\ calls'[c].pc = "gotState"
           /\ calls'[c].state = getStateCache) =>
              LET d == heap[getStateCache]
              IN  SetpointOf(d.tmode, d) = SetpointOf(calls[c].arg, d)]_vars

====
